---- MODULE Spec2Model ----
(***************************************************************************)
(* Batch generators of DLWP/model/generators.py: DataGenerator,            *)
(* SmartDataGenerator and SeriesDataGenerator.                             *)
(*                                                                         *)
(* A generator is modelled by its fields.  A numpy array handled by        *)
(* generate is modelled by its rows (the start offset each row was built   *)
(* from), its per-row shape, and how often it went through the model's     *)
(* imputer and scaler.  Which samples hold a NaN is part of the data set.  *)
(* sequence = None is written 0 (the constructor asserts sequence > 0).    *)
(***************************************************************************)
EXTENDS Integers, Sequences, FiniteSets, TLC

\* ---- bounds of the model ----
MaxSample == 5      \* ds.dims['sample'] ranges over 0..MaxSample
MaxShuffled == 3    \* a shuffled generator has at most MaxShuffled start offsets
MaxSteps == 2       \* input_time_steps, output_time_steps, time_dim in 1..MaxSteps
MaxInterval == 2    \* interval in 1..MaxInterval
MaxSeq == 2         \* sequence in None, 1..MaxSeq
MaxBatch == 3       \* batch_size in 1..MaxBatch
MaxChan == 2        \* size of the varlev axis of input_da and output_da
MaxExtra == 1       \* batch indices range over -(len+MaxExtra)..(len+MaxExtra)
GenSample == 5      \* ds.dims['sample'] in the windowing specification
GenSteps == 3       \* input_time_steps in the windowing specification
MaxVars == 3        \* variables on the varlev axis of the data in the loading specification
MaxLoads == 2       \* completed calls of _load_data are counted up to MaxLoads

VARIABLES
    kind,               \* "Data", "Smart" or "Series": the class of the generator
    ds_sample,          \* ds.dims['sample']
    input_time_steps,   \* self._input_time_steps (time_dim of a SmartDataGenerator)
    output_time_steps,  \* self._output_time_steps
    interval,           \* self._interval
    sequence,           \* self._sequence, 0 for None
    batch_size,         \* self._batch_size
    shuffle,            \* self._shuffle
    remove_nan,         \* self._remove_nan
    is_convolutional,   \* self._is_convolutional
    keep_time_axis,     \* self._keep_time_axis
    impute_missing,     \* self._impute_missing
    add_insolation,     \* self._add_insolation, 0 or 1
    rank,               \* self.rank
    in_dims,            \* input_da.shape[1:]
    out_dims,           \* output_da.shape[1:]
    nan_in,             \* samples at which the predictor view holds a NaN
    nan_out,            \* samples at which the target view holds a NaN
    delete_raises,      \* whether numpy.delete raises on an index out of bounds
    n_sample,           \* self._n_sample
    indices,            \* self._indices
    is_loaded,          \* self._is_loaded
    load,               \* self._load: "none" (falsy), "full", "required" or "minimal";
                        \* load=True of a SmartDataGenerator is written "full"
    force_load,         \* the force_load argument of SeriesDataGenerator
    varlev,             \* whether the data and the selections are keyed by 'varlev'
    input_sel,          \* self._input_sel['varlev'], the variables in the order given
    output_sel,         \* self._output_sel['varlev']
    store,              \* self.da, self.input_da, self.output_da: their variables, how
                        \* the views were taken and what is in memory
    warnings,           \* the warnings emitted so far (warnings.warn)
    loads,              \* completed calls of _load_data
    ret                 \* the outcome of the last call

vars == <<kind, ds_sample, input_time_steps, output_time_steps, interval, sequence,
          batch_size, shuffle, remove_nan, is_convolutional, keep_time_axis,
          impute_missing, add_insolation, rank, in_dims, out_dims, nan_in, nan_out,
          delete_raises, n_sample, indices, is_loaded, load, force_load, varlev,
          input_sel, output_sel, store, warnings, loads, ret>>

\* what no method assigns after construction
config == <<kind, ds_sample, input_time_steps, output_time_steps, interval, sequence,
            batch_size, shuffle, remove_nan, is_convolutional,
            impute_missing, rank, in_dims, out_dims, nan_in, nan_out,
            delete_raises, n_sample, load, force_load, varlev, input_sel, output_sel>>

\* the flags shape_2d, output_shape_2d and generate assign
flags == <<keep_time_axis, add_insolation>>

\* what _load_data assigns
loading == <<is_loaded, store, warnings, loads>>

\* ---- numpy and Python helpers ----

Min(a, b) == IF a < b THEN a ELSE b
Max(a, b) == IF a > b THEN a ELSE b

\* np.arange(n): 0, 1, ..., n-1; empty when n <= 0
Arange(n) == [i \in 1..Max(n, 0) |-> i - 1]

RECURSIVE Prod(_)
\* np.prod of a tuple; 1 for the empty tuple
Prod(s) == IF Len(s) = 0 THEN 1 ELSE Head(s) * Prod(Tail(s))

\* s[a:b] of Python for a tuple or an array, with negative bounds counted from the end
PySlice(s, a, b) ==
    LET n == Len(s)
        lo == IF a < 0 THEN Max(a + n, 0) ELSE Min(a, n)
        hi == IF b < 0 THEN Max(b + n, 0) ELSE Min(b, n)
    IN  IF lo < hi THEN SubSeq(s, lo + 1, hi) ELSE <<>>

\* s[-r:] for r > 0
LastDims(s, r) == PySlice(s, -r, Len(s))

\* the elements of a sequence
Range(s) == {s[i] : i \in 1..Len(s)}

\* all orders np.random.shuffle can leave np.arange(n) in
ShuffleOrders(n) ==
    {p \in [1..Max(n, 0) -> 0..(Max(n, 0) - 1)] :
        \A i, j \in 1..Max(n, 0) : p[i] = p[j] => i = j}

\* sequence or 1
SeqOr1 == IF sequence = 0 THEN 1 ELSE sequence

\* length of the sample axis of the array generate reads from.  A SmartDataGenerator
\* appends to the ds_sample predictors the slices [ds_sample - time_dim + 1:] of the
\* last time step and [ds_sample - time_dim:] of the targets.
DaLen ==
    IF kind = "Smart"
    THEN ds_sample
         + Len(PySlice(Arange(ds_sample), ds_sample - input_time_steps + 1, ds_sample))
         + Len(PySlice(Arange(ds_sample), ds_sample - input_time_steps, ds_sample))
    ELSE ds_sample

\* ---- Shape Calculator ----

\* shape: (time_step, [variable, level,] lat, lon), without insolation
Shape == <<input_time_steps>> \o in_dims

\* input_da.shape, ds.predictors.shape: the sample axis first
InputDaShape == <<DaLen>> \o in_dims

\* n_features with self._add_insolation = insol
NFeaturesOf(insol) ==
    Prod(Shape) + Prod(LastDims(Shape, rank)) * input_time_steps * insol

n_features == NFeaturesOf(add_insolation)

\* dense_shape
dense_shape ==
    IF keep_time_axis
    THEN <<Shape[1]>> \o <<n_features \div Shape[1]>>
    ELSE <<n_features>>

ConvolutionShapeOneChannel(keep, insol) ==
    IF keep
    THEN <<input_time_steps>> \o <<Prod(PySlice(Shape, 1, -rank)) + insol>>
            \o LastDims(Shape, rank)
    ELSE <<Prod(PySlice(Shape, 0, -rank)) + insol>> \o LastDims(InputDaShape, rank)

\* convolution_shape with self._keep_time_axis = keep and self._add_insolation = insol
ConvolutionShapeOf(keep, insol) ==
    IF keep
    THEN <<input_time_steps>> \o <<Prod(PySlice(Shape, 1, -rank)) + insol>>
            \o LastDims(Shape, rank)
    ELSE <<Prod(PySlice(Shape, 0, -rank)) + input_time_steps * insol>>
            \o LastDims(InputDaShape, rank)

convolution_shape == ConvolutionShapeOf(keep_time_axis, add_insolation)

\* shape_2d: the flag is cleared, the shape taken, the flag set again
shape_2d == ConvolutionShapeOf(FALSE, add_insolation)

KeepTimeLeftCleared == FALSE

\* self._keep_time_axis when shape_2d or output_shape_2d returns: a set flag is
\* cleared, then assigned True; a clear flag is not assigned
KeepTimeAfterShape2d == IF keep_time_axis THEN TRUE ELSE keep_time_axis

\* output_shape
OutputShape == <<output_time_steps>> \o out_dims

output_n_features == Prod(OutputShape)

output_dense_shape ==
    IF keep_time_axis
    THEN <<OutputShape[1]>> \o <<output_n_features \div OutputShape[1]>>
    ELSE <<output_n_features>>

\* output_convolution_shape with self._keep_time_axis = keep
OutputConvolutionShapeOf(keep) ==
    IF keep
    THEN <<output_time_steps>> \o <<Prod(PySlice(OutputShape, 1, -rank))>>
            \o LastDims(OutputShape, rank)
    ELSE <<Prod(PySlice(OutputShape, 0, -rank))>>
            \o LastDims(<<DaLen>> \o out_dims, rank)

output_convolution_shape == OutputConvolutionShapeOf(keep_time_axis)

\* output_shape_2d: the flag is cleared, the shape taken, the flag set again
output_shape_2d == OutputConvolutionShapeOf(FALSE)

\* the shapes DataGenerator and SmartDataGenerator give their targets are those of
\* the predictors; a SeriesDataGenerator has the output_ variants
TargetConvShape == IF kind = "Series" THEN output_convolution_shape ELSE convolution_shape
TargetDenseShape == IF kind = "Series" THEN output_dense_shape ELSE dense_shape
TargetFeatures == IF kind = "Series" THEN output_n_features ELSE n_features

\* ---- Windowing Engine ----

\* samples read for the predictor row of start offset s
InputWindow(s) ==
    IF kind = "Data" THEN {s} ELSE {s + n : n \in 0..(input_time_steps - 1)}

TargetColumnsByInputSteps(k) ==
    IF kind = "Data" THEN <<0>>
    ELSE [m \in 1..output_time_steps |->
            input_time_steps + interval - 1 + input_time_steps * k + (m - 1)]

\* the observations stacked along axis 1 into a target row of sequence step k, as
\* distances from the row's start offset, in the order np.concatenate puts them
TargetColumns(k) ==
    IF kind = "Data" THEN <<0>>
    ELSE [m \in 1..output_time_steps |->
            input_time_steps + interval - 1 + output_time_steps * k + (m - 1)]

\* samples read for the target row of start offset s at sequence step k
TargetWindow(s, k) == {s + TargetColumns(k)[m] : m \in 1..Len(TargetColumns(k))}

\* samples of insolation_da read for start offset s at sequence step k
InsolationWindow(s, k) ==
    {s + input_time_steps * k + n : n \in 0..(input_time_steps - 1)}

\* numpy raises IndexError for an index outside [-len, len)
OutOfBounds(x) == x >= DaLen \/ x < -DaLen

InputReads(samples) == UNION {InputWindow(samples[i]) : i \in 1..Len(samples)}
TargetReads(samples, k) == UNION {TargetWindow(samples[i], k) : i \in 1..Len(samples)}
InsolationReads(samples) ==
    IF add_insolation = 1
    THEN UNION {InsolationWindow(samples[i], k) : i \in 1..Len(samples), k \in 0..(SeqOr1 - 1)}
    ELSE {}

\* an array fresh from the data: one row per start offset, flat, neither imputed nor scaled
Arr(rows, features) ==
    [rows |-> rows, shape |-> <<features>>, scaled |-> 0, imputed |-> 0, cols |-> <<>>]

NoArr == Arr(<<>>, 0)

\* what the pipeline's steps see of an array
Meta(a) == [flat |-> Len(a.shape) = 1, scaled |-> a.scaled, imputed |-> a.imputed]

\* whether the predictor row / the target row of step k built from offset s holds a NaN
PredictorNan(s) == InputWindow(s) \cap nan_in # {}
TargetNan(s, k) == TargetWindow(s, k) \cap nan_out # {}

\* ---- Post-processing Pipeline ----
\* A stage takes and returns the state of one generate call:
\* err, the predictors p, the current target t, the targets so far, the log of
\* pipeline steps and the target samples read.

RECURSIVE DeleteRows(_, _, _)
\* np.delete(rows, bad, axis=0), indices counted from 1
DeleteRows(rows, bad, i) ==
    IF i > Len(rows) THEN <<>>
    ELSE (IF i \in bad THEN <<>> ELSE <<rows[i]>>) \o DeleteRows(rows, bad, i + 1)

Event(op, st, k) == [op |-> op, step |-> k, p |-> Meta(st.p), t |-> Meta(st.t)]

\* delete_nan_samples(p, t) of DLWP/util.py on the rows of p and of the target of step
\* k: every row index at which p or t holds a NaN is deleted from both; an index
\* beyond the shorter array is an error of np.delete or is ignored
delete_nan_samples(prows, trows, k) ==
    LET np == Len(prows)
        nt == Len(trows)
        bad == {i \in 1..Max(np, nt) :
                    \/ i <= np /\ PredictorNan(prows[i])
                    \/ i <= nt /\ TargetNan(trows[i], k)}
    IN  [raises |-> delete_raises /\ \E i \in bad : i > np \/ i > nt,
         p |-> DeleteRows(prows, bad, 1),
         t |-> DeleteRows(trows, bad, 1)]

\* if self._remove_nan: p, t = delete_nan_samples(p, t)
NanStage(st, k) ==
    IF st.err # "none" \/ ~remove_nan THEN st
    ELSE
    LET d == delete_nan_samples(st.p.rows, st.t.rows, k)
        logged == [st EXCEPT !.log = Append(@, Event("delete_nan", st, k))]
    IN  IF d.raises
        THEN [logged EXCEPT !.err = "IndexError"]
        ELSE [logged EXCEPT !.p.rows = d.p, !.t.rows = d.t]

\* if scale_and_impute: if self._impute_missing: p, t = self.model.imputer_transform(p, t)
ImputeStage(st, k, scale_and_impute) ==
    IF st.err # "none" \/ ~scale_and_impute \/ ~impute_missing THEN st
    ELSE [st EXCEPT !.log = Append(@, Event("impute", st, k)),
                    !.p.imputed = @ + 1,
                    !.t.imputed = @ + 1]

ScaleStageAlways(st, k, scale_and_impute) ==
    IF st.err # "none" THEN st
    ELSE [st EXCEPT !.log = Append(@, Event("scale", st, k)),
                    !.p.scaled = @ + 1,
                    !.t.scaled = @ + 1]

\* if scale_and_impute: p, t = self.model.scaler_transform(p, t)
ScaleStage(st, k, scale_and_impute) ==
    IF st.err # "none" \/ ~scale_and_impute THEN st
    ELSE [st EXCEPT !.log = Append(@, Event("scale", st, k)),
                    !.p.scaled = @ + 1,
                    !.t.scaled = @ + 1]

\* p.reshape((n_sample,) + pshape); t.reshape((n_sample,) + tshape): ValueError
\* unless the array has n_sample rows
Reshape(st, k, n, pshape, tshape) ==
    LET logged == [st EXCEPT !.log = Append(@, Event("reshape", st, k))]
    IN  IF Len(st.p.rows) # n \/ Len(st.t.rows) # n
        THEN [logged EXCEPT !.err = "ValueError"]
        ELSE [logged EXCEPT !.p.shape = pshape, !.t.shape = tshape]

\* Format spatial shape for convolutions; also takes care of time axis
ReshapeStage(st, k, n) ==
    IF st.err # "none" THEN st
    ELSE IF is_convolutional THEN Reshape(st, k, n, convolution_shape, TargetConvShape)
    ELSE IF keep_time_axis THEN Reshape(st, k, n, dense_shape, TargetDenseShape)
    ELSE st

\* one target: the window is read, then the pipeline runs on (p, t)
TargetStep(st, samples, k, scale_and_impute) ==
    IF st.err # "none" THEN st
    ELSE
    LET pos == TargetReads(samples, k)
        read == [st EXCEPT !.reads_out = @ \cup pos]
    IN  IF \E x \in pos : OutOfBounds(x)
        THEN [read EXCEPT !.err = "IndexError"]
        ELSE
        LET s0 == [read EXCEPT !.t = [Arr(samples, TargetFeatures)
                                        EXCEPT !.cols = TargetColumns(k)]]
            s1 == NanStage(s0, k)
            s2 == ImputeStage(s1, k, scale_and_impute)
            s3 == ScaleStage(s2, k, scale_and_impute)
            s4 == ReshapeStage(s3, k, Len(samples))
        IN  IF s4.err # "none" THEN s4
            ELSE [s4 EXCEPT !.targets = Append(@, s4.t)]

RECURSIVE TargetSteps(_, _, _, _)
\* for s in range(self._sequence), or the one target when sequence is None
TargetSteps(st, samples, k, scale_and_impute) ==
    IF k >= SeqOr1 THEN st
    ELSE TargetSteps(TargetStep(st, samples, k, scale_and_impute), samples, k + 1,
                     scale_and_impute)

\* insol[1:], returned next to the predictors in sequence mode with insolation
InsolationBlocks(samples) ==
    IF add_insolation = 1 /\ sequence # 0
    THEN [k \in 1..(sequence - 1) |->
            [rows |-> samples,
             shape |-> <<input_time_steps, 1>> \o LastDims(in_dims, rank),
             scaled |-> 0, imputed |-> 0,
             cols |-> [m \in 1..input_time_steps |-> input_time_steps * k + (m - 1)]]]
    ELSE <<>>

\* ---- loading ----

\* the variables of the data, in the order of its varlev axis
DataVars == [i \in 1..Max(MaxVars, MaxChan) |-> i]

\* union, added_in, added_out of _load_data
union == SelectSeq(input_sel, LAMBDA v : v \in Range(output_sel))
added_in == SelectSeq(input_sel, LAMBDA v : v \notin Range(union))
added_out == SelectSeq(output_sel, LAMBDA v : v \notin Range(union))

FallsBackOnSharedVariable ==
    Len(union) > 0 /\ Len(added_in) > 0 /\ Len(added_out) > 0

\* the test of _load_data for giving up the single copy
MinimalFallsBack == Len(added_in) > 0 /\ Len(added_out) > 0

\* the arrays as __init__ leaves them: the views selected by label, nothing in
\* memory but the array a SmartDataGenerator loads when load is true
Selected ==
    [da |-> DataVars, input_da |-> input_sel, output_da |-> output_sel, views |-> "sel",
     memory |-> IF kind = "Smart" /\ load # "none" THEN {"da"} ELSE {}]

\* _load_data(): whether it raises, the arrays it leaves and the warnings it emits
LoadData ==
    LET done == [raises |-> FALSE, store |-> Selected, warned |-> {}]
    IN  IF load = "minimal"
        THEN IF varlev
             THEN IF MinimalFallsBack
                  THEN [done EXCEPT !.warned = {"extra variables"},
                                    !.store.memory = {"da"}]
                  ELSE LET da == union \o added_in \o added_out
                       IN  [done EXCEPT !.store =
                              [da |-> da,
                               input_da |-> PySlice(da, 0, Len(union) + Len(added_in)),
                               output_da |-> PySlice(da, 0, Len(union) + Len(added_out)),
                               views |-> "slice",
                               memory |-> {"da"}]]
             ELSE [done EXCEPT !.raises = TRUE]
        ELSE [done EXCEPT !.store.memory =
                (IF load = "full" THEN {"ds"} ELSE {})
                \cup (IF load = "required" THEN {"input_da", "output_da"} ELSE {})]

\* generate calls _load_data when the flag is clear (SeriesDataGenerator only)
LoadCalled == kind = "Series" /\ ~is_loaded

\* generate(samples, scale_and_impute): the outcome, without the assignments to the
\* loading state and the flags
GenerateOf(samples0, scale_and_impute) ==
    LET samples == IF Len(samples0) = 0 THEN Arange(n_sample) ELSE samples0
        rin == InputReads(samples)
        rinsol == InsolationReads(samples)
        start == [err |-> "none", p |-> Arr(samples, n_features), t |-> NoArr,
                  targets |-> <<>>, log |-> <<>>, reads_out |-> {}]
        res == [outcome |-> "ok", samples |-> samples, p |-> NoArr, p_extra |-> <<>>,
                targets |-> <<>>, log |-> <<>>,
                reads_in |-> rin, reads_insol |-> {}, reads_out |-> {}]
    IN  IF LoadCalled /\ LoadData.raises
        THEN [res EXCEPT !.outcome = "NotImplementedError", !.reads_in = {}]
        ELSE IF \E x \in rin : OutOfBounds(x)
        THEN [res EXCEPT !.outcome = "IndexError"]
        ELSE IF \E x \in rinsol : OutOfBounds(x)
        THEN [res EXCEPT !.outcome = "IndexError", !.reads_insol = rinsol]
        ELSE
        LET end == TargetSteps(start, samples, 0, scale_and_impute)
        IN  IF end.err # "none"
            THEN [res EXCEPT !.outcome = end.err, !.reads_insol = rinsol,
                             !.log = end.log, !.reads_out = end.reads_out]
            ELSE [res EXCEPT !.p = end.p, !.p_extra = InsolationBlocks(samples),
                             !.targets = end.targets, !.log = end.log,
                             !.reads_insol = rinsol, !.reads_out = end.reads_out]

\* ---- Epoch Controller ----

\* self._n_sample as the constructors set it
NSampleOf(k, total, its, ots, seq, itv) ==
    IF k = "Series"
    THEN IF seq # 0
         THEN total - its - ots * seq + 2 - itv
         ELSE total - its - ots + 2 - itv
    ELSE total

GeneratorLenFloor == n_sample \div batch_size

\* __len__: int(np.ceil(self._n_sample / self._batch_size))
GeneratorLen == -((-n_sample) \div batch_size)

EpochOrdersWithRepeats ==
    IF shuffle
    THEN [1..Max(n_sample, 0) -> 0..(Max(n_sample, 0) - 1)]
    ELSE {Arange(n_sample)}

\* the orders on_epoch_end can leave self._indices in
EpochOrders == IF shuffle THEN ShuffleOrders(n_sample) ELSE {Arange(n_sample)}

BatchIndexesShort(index) ==
    PySlice(indices, index * batch_size, (index + 1) * batch_size - 1)

\* self._indices[index * self._batch_size:(index + 1) * self._batch_size]
BatchIndexes(index) == PySlice(indices, index * batch_size, (index + 1) * batch_size)

NormalizeTwice(index) ==
    IF index < 0 THEN 2 * GeneratorLen + index ELSE index

\* if int(index) < 0: index = len(self) + index
Normalize(index) ==
    IF index < 0 THEN GeneratorLen + index ELSE index

NoGen == [outcome |-> "none", samples |-> <<>>, p |-> NoArr, p_extra |-> <<>>,
          targets |-> <<>>, log |-> <<>>,
          reads_in |-> {}, reads_insol |-> {}, reads_out |-> {}]

NoRet == [op |-> "init", index |-> 0, idx |-> 0, indexes |-> <<>>,
          scale_and_impute |-> TRUE, outcome |-> "none", gen |-> NoGen, value |-> 0,
          shape |-> [shape |-> <<>>, n_features |-> 0, dense_shape |-> <<>>,
                     convolution_shape |-> <<>>, shape_2d |-> <<>>,
                     output_shape_2d |-> <<>>]]

\* __getitem__(index): the outcome.  len(self) raises ValueError when __len__
\* returns a negative number.
GetItemOf(index) ==
    LET call == [NoRet EXCEPT !.op = "getitem", !.index = index]
    IN  IF GeneratorLen < 0
        THEN [call EXCEPT !.outcome = "ValueError"]
        ELSE
        LET idx == Normalize(index)
        IN  IF idx > GeneratorLen
            THEN [call EXCEPT !.idx = idx, !.outcome = "IndexError"]
            ELSE
            LET indexes == BatchIndexes(idx)
                g == GenerateOf(indexes, TRUE)
            IN  [call EXCEPT !.idx = idx, !.indexes = indexes,
                             !.outcome = g.outcome, !.gen = g]

\* ---- the operations ----

\* on_epoch_end()
OnEpochEnd ==
    /\ indices' \in EpochOrders
    /\ ret' = [NoRet EXCEPT !.op = "on_epoch_end", !.outcome = "ok"]
    /\ UNCHANGED <<config, flags, loading>>

LoadsWhenReached(reached) == reached /\ kind = "Series" /\ ~LoadData.raises

\* whether a call that reaches generate (reached) runs _load_data to its end
Loads(reached) == reached /\ LoadCalled /\ ~LoadData.raises

\* self._add_insolation and self._keep_time_axis when generate returns: with
\* insolation both are overwritten for the shape and assigned again, True and
\* bool(keep_time); True is the 1 the constructor set
AddInsolationAfterGenerate ==
    IF kind = "Series" /\ add_insolation # 0 THEN 1 ELSE add_insolation

KeepTimeAfterGenerate ==
    IF kind = "Series" /\ add_insolation # 0 THEN (keep_time_axis = TRUE) ELSE keep_time_axis

\* what a call leaves of the loading state and of the flags
GenerateEffects(reached) ==
    /\ is_loaded' = (is_loaded \/ Loads(reached))
    /\ loads' = IF Loads(reached) /\ loads < MaxLoads THEN loads + 1 ELSE loads
    /\ store' = IF Loads(reached) THEN LoadData.store ELSE store
    /\ warnings' = IF Loads(reached) THEN warnings \cup LoadData.warned ELSE warnings
    /\ keep_time_axis' = IF reached THEN KeepTimeAfterGenerate ELSE keep_time_axis
    /\ add_insolation' = IF reached THEN AddInsolationAfterGenerate ELSE add_insolation

GetItemReshuffling ==
    \E index \in (-(Max(GeneratorLen, 0) + MaxExtra))..(Max(GeneratorLen, 0) + MaxExtra) :
        /\ ret' = GetItemOf(index)
        /\ GenerateEffects(ret'.gen.outcome # "none")
        /\ indices' \in EpochOrders
        /\ UNCHANGED config

\* generator[index]
GetItem ==
    \E index \in (-(Max(GeneratorLen, 0) + MaxExtra))..(Max(GeneratorLen, 0) + MaxExtra) :
        /\ ret' = GetItemOf(index)
        /\ GenerateEffects(ret'.gen.outcome # "none")
        /\ UNCHANGED <<config, indices>>

\* the sample selections generate is called with: all, and the batches of the epoch
SampleChoices == {<<>>} \cup {BatchIndexes(i) : i \in 0..(GeneratorLen - 1)}

\* generate(samples, scale_and_impute)
Generate ==
    \E samples \in SampleChoices, scale_and_impute \in BOOLEAN :
        LET g == GenerateOf(samples, scale_and_impute)
        IN  /\ ret' = [NoRet EXCEPT !.op = "generate", !.indexes = samples,
                                    !.scale_and_impute = scale_and_impute,
                                    !.outcome = g.outcome, !.gen = g]
            /\ GenerateEffects(TRUE)
            /\ UNCHANGED <<config, indices>>

\* the shape properties, read together; only a SeriesDataGenerator has output_shape_2d
Shapes ==
    [shape |-> Shape, n_features |-> n_features, dense_shape |-> dense_shape,
     convolution_shape |-> convolution_shape, shape_2d |-> shape_2d,
     output_shape_2d |-> IF kind = "Series" THEN output_shape_2d ELSE <<>>]

Query ==
    /\ ret' = [NoRet EXCEPT !.op = "shapes", !.outcome = "ok", !.shape = Shapes]
    /\ keep_time_axis' = KeepTimeAfterShape2d
    /\ UNCHANGED <<config, add_insolation, indices, loading>>

\* len(generator): Python raises ValueError when __len__ returns a negative number
LenCall ==
    /\ ret' = IF GeneratorLen < 0
              THEN [NoRet EXCEPT !.op = "len", !.outcome = "ValueError"]
              ELSE [NoRet EXCEPT !.op = "len", !.outcome = "ok", !.value = GeneratorLen]
    /\ UNCHANGED <<config, flags, indices, loading>>

Next == OnEpochEnd \/ GetItem \/ Generate \/ Query \/ LenCall

\* ---- construction ----

\* (varlev, lat, lon) extents of the data
Grids == {<<c, 2, 3>> : c \in 1..MaxChan}

\* what DataGenerator and SmartDataGenerator fix: one array, targets one window after
\* the predictors, no sequence, no insolation, two spatial dimensions
Legacy ==
    /\ output_time_steps = input_time_steps
    /\ interval = 1
    /\ sequence = 0
    /\ add_insolation = 0
    /\ rank = 2
    /\ out_dims = in_dims

\* selections that keep each variable of the views once, in the order of the
\* data; 'required' loading on the first generate, and a SmartDataGenerator that loads
DefaultLoad ==
    /\ force_load = FALSE
    /\ load = (IF kind = "Series" THEN "required"
               ELSE IF kind = "Smart" THEN "full" ELSE "none")
    /\ varlev = TRUE
    /\ input_sel = [i \in 1..in_dims[1] |-> i]
    /\ output_sel = [i \in 1..out_dims[1] |-> i]

\* the warnings of the constructors: SmartDataGenerator warns that it is
\* deprecated and, when not loading, that reading will be slow; a
\* SeriesDataGenerator emits what _load_data emits under force_load
ConstructionWarnings ==
    IF kind = "Smart"
    THEN {"deprecated"} \cup (IF load = "none" THEN {"slow"} ELSE {})
    ELSE IF kind = "Series" /\ force_load THEN LoadData.warned
    ELSE {}

\* the end of __init__: _n_sample, _load_data() under force_load, on_epoch_end().
\* A constructor in which _load_data raises leaves no generator.
Constructed ==
    /\ n_sample = NSampleOf(kind, ds_sample, input_time_steps, output_time_steps,
                            sequence, interval)
    /\ indices \in EpochOrders
    /\ ~(force_load /\ LoadData.raises)
    /\ is_loaded = force_load
    /\ loads = (IF force_load THEN 1 ELSE 0)
    /\ store = (IF force_load THEN LoadData.store ELSE Selected)
    /\ warnings = ConstructionWarnings
    /\ ret = NoRet

\* at most one sample with a NaN in each view
NanSets == {{}} \cup {{x} : x \in 0..(DaLen - 1)}

\* generators of all three classes, with a dense model, on data without NaN
Init ==
    /\ kind \in {"Data", "Smart", "Series"}
    /\ ds_sample \in 0..MaxSample
    /\ input_time_steps \in 1..MaxSteps
    /\ output_time_steps \in 1..MaxSteps
    /\ interval \in 1..MaxInterval
    /\ sequence \in 0..MaxSeq
    /\ batch_size \in 1..MaxBatch
    /\ shuffle \in BOOLEAN
    /\ remove_nan = TRUE
    /\ is_convolutional = FALSE
    /\ keep_time_axis = FALSE
    /\ impute_missing = FALSE
    /\ add_insolation = 0
    /\ rank = 2
    /\ in_dims = <<MaxChan, 2, 3>>
    /\ out_dims = in_dims
    /\ kind # "Series" => Legacy
    /\ nan_in = {}
    /\ nan_out = {}
    /\ delete_raises = TRUE
    /\ DefaultLoad
    /\ Constructed
    /\ shuffle => n_sample <= MaxShuffled

Spec == Init /\ [][Next]_vars

\* generators of every model layout on data without NaN
InitGen ==
    /\ kind \in {"Data", "Smart", "Series"}
    /\ ds_sample = GenSample
    /\ input_time_steps \in 1..GenSteps
    /\ output_time_steps \in 1..MaxSteps
    /\ interval \in 1..MaxInterval
    /\ sequence \in 0..MaxSeq
    /\ batch_size = MaxBatch
    /\ shuffle = FALSE
    /\ remove_nan \in BOOLEAN
    /\ is_convolutional \in BOOLEAN
    /\ keep_time_axis \in BOOLEAN
    /\ impute_missing \in BOOLEAN
    /\ add_insolation \in {0, 1}
    /\ rank = 2
    /\ in_dims = <<MaxChan, 2, 3>>
    /\ out_dims = <<1, 2, 3>>
    /\ kind # "Series" => Legacy
    /\ nan_in = {}
    /\ nan_out = {}
    /\ delete_raises = TRUE
    /\ DefaultLoad
    /\ Constructed

SpecGen == InitGen /\ [][Next]_vars

\* the shape calculator over array extents, time steps, rank and layout flags
InitShape ==
    /\ kind = "Series"
    /\ ds_sample = MaxSample
    /\ input_time_steps \in 1..GenSteps
    /\ output_time_steps = 1
    /\ interval = 1
    /\ sequence = 0
    /\ batch_size = MaxBatch
    /\ shuffle = FALSE
    /\ remove_nan = FALSE
    /\ is_convolutional \in BOOLEAN
    /\ keep_time_axis \in BOOLEAN
    /\ impute_missing = FALSE
    /\ add_insolation \in {0, 1}
    /\ rank \in {1, 2}
    /\ in_dims \in {<<c, y, x>> : c \in 1..MaxChan, y \in 1..2, x \in 2..3}
    /\ out_dims = in_dims
    /\ nan_in = {}
    /\ nan_out = {}
    /\ delete_raises = TRUE
    /\ DefaultLoad
    /\ Constructed

SpecShape == InitShape /\ [][Next]_vars

\* SeriesDataGenerators on data with NaNs, flat and convolutional layout
InitNan ==
    /\ kind = "Series"
    /\ ds_sample = GenSample
    /\ input_time_steps \in 1..MaxSteps
    /\ output_time_steps \in 1..MaxSteps
    /\ interval = 1
    /\ sequence \in 0..MaxSeq
    /\ batch_size = MaxBatch
    /\ shuffle = FALSE
    /\ remove_nan \in BOOLEAN
    /\ is_convolutional \in BOOLEAN
    /\ keep_time_axis = FALSE
    /\ impute_missing = FALSE
    /\ add_insolation = 0
    /\ rank = 2
    /\ in_dims = <<MaxChan, 2, 3>>
    /\ out_dims = <<1, 2, 3>>
    /\ nan_in \in NanSets
    /\ nan_out \in NanSets
    /\ delete_raises \in BOOLEAN
    /\ DefaultLoad
    /\ Constructed

SpecNan == InitNan /\ [][Next]_vars

\* the selections of variables: each variable at most once, in any order
Selections ==
    {sel \in UNION {[1..n -> 1..MaxVars] : n \in 1..MaxVars} :
        \A i, j \in 1..Len(sel) : i # j => sel[i] # sel[j]}

\* SmartDataGenerators and SeriesDataGenerators of every loading mode, keyed by
\* varlev or not, loaded at construction or not; the selections vary where
\* _load_data reads them, and the output selection is given in the order of the data
InitLoad ==
    /\ kind \in {"Smart", "Series"}
    /\ ds_sample = GenSample
    /\ input_time_steps = 1
    /\ output_time_steps = 1
    /\ interval = 1
    /\ sequence = 0
    /\ batch_size = MaxBatch
    /\ shuffle = FALSE
    /\ remove_nan = FALSE
    /\ is_convolutional = FALSE
    /\ keep_time_axis = FALSE
    /\ impute_missing = FALSE
    /\ add_insolation = 0
    /\ rank = 2
    /\ load \in (IF kind = "Smart" THEN {"none", "full"}
                 ELSE {"none", "full", "required", "minimal"})
    /\ force_load \in (IF kind = "Series" THEN BOOLEAN ELSE {FALSE})
    /\ varlev \in (IF kind = "Smart" THEN {TRUE} ELSE BOOLEAN)
    /\ input_sel \in Selections
    /\ output_sel \in {sel \in Selections : \A i \in 1..(Len(sel) - 1) : sel[i] < sel[i + 1]}
    /\ ~(kind = "Series" /\ load = "minimal" /\ varlev)
            => (input_sel = <<1>> /\ output_sel = <<1>>)
    /\ in_dims = <<Len(input_sel), 2, 3>>
    /\ out_dims = <<Len(output_sel), 2, 3>>
    /\ kind # "Series" => Legacy
    /\ nan_in = {}
    /\ nan_out = {}
    /\ delete_raises = TRUE
    /\ Constructed

SpecLoad == InitLoad /\ [][Next]_vars

\* ---- the claims ----

\* ceil(n / b) for b > 0, stated by its defining property
CeilDiv(n, b) == CHOOSE c \in (-(n * n + 1))..(n * n + 1) : c * b >= n /\ (c - 1) * b < n

RECURSIVE ConcatBatches(_)
\* the index slices of batches i, i+1, ..., len-1, one after the other
ConcatBatches(i) ==
    IF i >= GeneratorLen THEN <<>> ELSE BatchIndexes(i) \o ConcatBatches(i + 1)

\* C1: in every epoch, for every generator class, shuffled or not, the index slices
\* of batches 0 .. len-1 together hold every index of 0 .. n_sample-1 exactly once
\* and nothing else.
C1_EpochVisitsEachIndexOnce ==
    /\ Len(ConcatBatches(0)) = Max(n_sample, 0)
    /\ Range(ConcatBatches(0)) = 0..(n_sample - 1)

\* C1 witness: a shuffled order after an epoch end, with several batches and a short
\* last one.
C1_Witness ==
    /\ ret.op = "on_epoch_end"
    /\ shuffle
    /\ indices # Arange(n_sample)
    /\ GeneratorLen >= 2
    /\ n_sample % batch_size # 0

\* n_sample as the data model states it
NSampleStated ==
    IF kind = "Series"
    THEN ds_sample - input_time_steps - output_time_steps * SeqOr1 + 2 - interval
    ELSE ds_sample

\* C2 as stated: for every constructed generator len(generator) is
\* ceil(n_sample / batch_size), n_sample being the derived sample count.
C2_LenIsCeilAlways ==
    ret.op = "len" =>
        /\ ret.outcome = "ok"
        /\ ret.value = CeilDiv(NSampleStated, batch_size)

\* C2 amended: len(generator) is ceil(n_sample / batch_size) whenever that number is
\* not negative, and raises ValueError when it is negative (n_sample <= -batch_size).
C2_LenIsCeilUnlessNegative ==
    /\ n_sample = NSampleStated
    /\ ret.op = "len" =>
        IF CeilDiv(NSampleStated, batch_size) >= 0
        THEN ret.outcome = "ok" /\ ret.value = CeilDiv(NSampleStated, batch_size)
        ELSE ret.outcome = "ValueError"

\* C2 witness: a sequence-mode SeriesDataGenerator whose last batch is short.
C2_Witness ==
    /\ ret.op = "len"
    /\ ret.outcome = "ok"
    /\ kind = "Series"
    /\ sequence >= 2
    /\ ret.value >= 2
    /\ n_sample % batch_size # 0
    /\ n_sample = ds_sample - input_time_steps - output_time_steps * sequence + 2 - interval

\* C3: a batch index at or beyond the batch count raises IndexError and returns no
\* batch.
C3_IndexAtOrBeyondLenRaises ==
    (ret.op = "getitem" /\ GeneratorLen >= 0 /\ ret.index >= GeneratorLen) =>
        ret.outcome = "IndexError" /\ ret.gen.outcome = "none"

\* a generate call, direct or for a batch 0 <= i < len, that got as far as its windows
GenerateRan ==
    /\ \/ ret.op = "generate"
       \/ ret.op = "getitem" /\ ret.index >= 0 /\ ret.index < GeneratorLen
    /\ ret.gen.outcome # "none"

\* no row of the call's samples holds a NaN, in the predictors or in any target
NoNanRows ==
    \A i \in 1..Len(ret.gen.samples) :
        /\ ~PredictorNan(ret.gen.samples[i])
        /\ \A k \in 0..(SeqOr1 - 1) : ~TargetNan(ret.gen.samples[i], k)

\* C4: the predictors and every target returned by generate have the same number of
\* rows, which is the number of requested offsets when no NaN sample is removed and
\* at most that number with remove_nan.
C4_RowsAgree ==
    (GenerateRan /\ ret.gen.outcome = "ok") =>
        /\ \A j \in 1..Len(ret.gen.targets) :
                Len(ret.gen.targets[j].rows) = Len(ret.gen.p.rows)
        /\ Len(ret.gen.p.rows) <= Len(ret.gen.samples)
        /\ (~remove_nan \/ NoNanRows) => Len(ret.gen.p.rows) = Len(ret.gen.samples)

\* C5: for start offsets 0 <= s < n_sample a SeriesDataGenerator reads only sample
\* positions within [0, total_samples-1]: input, target and insolation windows.
C5_ReadsInsideData ==
    (GenerateRan /\ kind = "Series" /\ Range(ret.gen.samples) \subseteq 0..(n_sample - 1)) =>
        (ret.gen.reads_in \cup ret.gen.reads_out \cup ret.gen.reads_insol)
            \subseteq 0..(ds_sample - 1)

\* C6: within one generate call the steps run in the order NaN removal, imputation,
\* scaling, reshape on the predictors and on each target: nothing is scaled before it
\* was imputed (when the model imputes), nothing is reshaped before it was scaled, and
\* nothing scaled or reshaped goes to NaN removal, the imputer or the scaler; in
\* sequence mode too.
C6_PipelineOrder ==
    GenerateRan =>
        \A i \in 1..Len(ret.gen.log) :
            LET e == ret.gen.log[i]
            IN  /\ e.op \in {"delete_nan", "impute", "scale"} =>
                    /\ e.p.scaled = 0 /\ e.p.flat
                    /\ e.t.scaled = 0 /\ e.t.flat
                /\ e.op \in {"delete_nan", "impute"} =>
                    e.p.imputed = 0 /\ e.t.imputed = 0
                /\ (e.op = "scale" /\ impute_missing) =>
                    e.p.imputed >= 1 /\ e.t.imputed >= 1
                /\ (e.op = "reshape" /\ ret.scale_and_impute) =>
                    e.p.scaled >= 1 /\ e.t.scaled >= 1

\* the arrays a generate call returned: the predictors and every target
Returned == {ret.gen.p} \cup Range(ret.gen.targets)

\* C7 as stated: generate(samples, scale_and_impute=False) returns flat, unscaled
\* (rows, features) arrays for every model layout: no imputer, no scaler, no reshape.
C7_FlatAndUnscaled ==
    (ret.op = "generate" /\ ~ret.scale_and_impute /\ ret.outcome = "ok") =>
        /\ \A i \in 1..Len(ret.gen.log) : ret.gen.log[i].op = "delete_nan"
        /\ \A a \in Returned : a.scaled = 0 /\ a.imputed = 0 /\ Len(a.shape) = 1

\* C7 amended: generate(samples, scale_and_impute=False) calls neither the imputer nor
\* the scaler and returns unscaled arrays; they are flat (rows, features) exactly when
\* the model is neither convolutional nor recurrent, otherwise they are reshaped as
\* with scale_and_impute=True.
C7_UnscaledReshapedByLayout ==
    (ret.op = "generate" /\ ~ret.scale_and_impute) =>
        /\ \A i \in 1..Len(ret.gen.log) : ret.gen.log[i].op \in {"delete_nan", "reshape"}
        /\ ret.outcome = "ok" =>
            /\ \A a \in Returned :
                /\ a.scaled = 0 /\ a.imputed = 0
                /\ Len(a.shape) = 1 <=> (~is_convolutional /\ ~keep_time_axis)
            /\ is_convolutional => ret.gen.p.shape = convolution_shape
            /\ (~is_convolutional /\ keep_time_axis) => ret.gen.p.shape = dense_shape
            /\ (~is_convolutional /\ ~keep_time_axis) => ret.gen.p.shape = <<n_features>>

\* C7 witness: a convolutional, imputing model; generate(..., scale_and_impute=False)
\* returned reshaped, unscaled rows.
C7_Witness ==
    /\ ret.op = "generate"
    /\ ~ret.scale_and_impute
    /\ ret.outcome = "ok"
    /\ is_convolutional
    /\ impute_missing
    /\ remove_nan
    /\ Len(ret.gen.p.rows) >= 2
    /\ Len(ret.gen.p.shape) > 1
    /\ ret.gen.p.scaled = 0

\* position of the channel dimension in convolution_shape
ChannelDim == IF keep_time_axis THEN 2 ELSE 1

\* C8 as stated: with insolation, the channel dimension of convolution_shape is the
\* channel dimension without insolation plus exactly 1, the other dimensions equal.
C8_InsolationAddsOneChannel ==
    (ret.op = "shapes" /\ add_insolation = 1) =>
        LET on == ret.shape.convolution_shape
            off == ConvolutionShapeOf(keep_time_axis, 0)
        IN  /\ Len(on) = Len(off)
            /\ \A j \in 1..Len(on) :
                    on[j] = off[j] + (IF j = ChannelDim THEN 1 ELSE 0)

\* C8 amended: with insolation, the channel dimension of convolution_shape is the
\* channel dimension without insolation plus 1 when the time axis is kept (recurrent
\* model) and plus input_time_steps when it is folded into the channels; the other
\* dimensions are equal.
C8_InsolationAddsChannelPerFoldedStep ==
    (ret.op = "shapes" /\ add_insolation = 1) =>
        LET on == ret.shape.convolution_shape
            off == ConvolutionShapeOf(keep_time_axis, 0)
            more == IF keep_time_axis THEN 1 ELSE input_time_steps
        IN  /\ Len(on) = Len(off)
            /\ \A j \in 1..Len(on) :
                    on[j] = off[j] + (IF j = ChannelDim THEN more ELSE 0)

\* C8 witness: convolution_shape of a non-recurrent generator with insolation and
\* several input time steps.
C8_Witness ==
    /\ ret.op = "shapes"
    /\ add_insolation = 1
    /\ ~keep_time_axis
    /\ input_time_steps >= 2
    /\ ret.shape.convolution_shape[1] = input_time_steps * (in_dims[1] + 1)

\* C9: a negative batch index i with -len <= i <= -1 is normalized once, to len+i, and
\* generator[i] selects the slice and returns the batch of generator[len+i].
C9_NegativeIndexWrapsOnce ==
    (ret.op = "getitem" /\ ret.index < 0 /\ ret.index >= -GeneratorLen) =>
        /\ ret.idx = GeneratorLen + ret.index
        /\ ret.indexes = SubSeq(indices, ret.idx * batch_size + 1,
                                Min((ret.idx + 1) * batch_size, Len(indices)))
        /\ [ret EXCEPT !.index = 0] = [GetItemOf(GeneratorLen + ret.index) EXCEPT !.index = 0]

\* C9 witness: generator[-1] with at least two batches returned the last batch.
C9_Witness ==
    /\ ret.op = "getitem"
    /\ ret.index = -1
    /\ GeneratorLen >= 2
    /\ ret.outcome = "ok"
    /\ ret.indexes = BatchIndexes(GeneratorLen - 1)
    /\ ret.indexes # BatchIndexes(0)

\* C10: batch i, 0 <= i < len, requests exactly positions [i*batch_size,
\* (i+1)*batch_size) of the index order: batch_size offsets, but
\* n_sample - (len-1)*batch_size, between 1 and batch_size, for the last batch.
C10_BatchIsSliceOfOrder ==
    (ret.op = "getitem" /\ ret.index >= 0 /\ ret.index < GeneratorLen) =>
        /\ ret.indexes = [j \in 1..(Min((ret.index + 1) * batch_size, n_sample)
                                        - ret.index * batch_size)
                            |-> indices[ret.index * batch_size + j]]
        /\ ret.gen.samples = ret.indexes
        /\ ret.index < GeneratorLen - 1 => Len(ret.indexes) = batch_size
        /\ ret.index = GeneratorLen - 1 =>
            /\ Len(ret.indexes) = n_sample - (GeneratorLen - 1) * batch_size
            /\ Len(ret.indexes) >= 1
            /\ Len(ret.indexes) <= batch_size

\* C10 witness: the short last batch of a shuffled epoch was requested.
C10_Witness ==
    /\ ret.op = "getitem"
    /\ ret.index = GeneratorLen - 1
    /\ GeneratorLen >= 2
    /\ shuffle
    /\ Len(ret.indexes) < batch_size
    /\ ret.outcome = "ok"

\* C12: in a SeriesDataGenerator the target of sequence step k (k = 0 without a
\* sequence) stacks, oldest first, the output_time_steps observations at
\* s + input_time_steps + interval - 1 + k*output_time_steps + n, n = 0 ..
\* output_time_steps-1, for each requested start offset s; there are exactly
\* `sequence` targets (one without a sequence), by ascending k, and each window
\* starts one observation after the end of the one before.
C12_TargetWindows ==
    (kind = "Series" /\ GenerateRan /\ ret.gen.outcome = "ok") =>
        /\ Len(ret.gen.targets) = SeqOr1
        /\ \A j \in 1..Len(ret.gen.targets) :
            /\ ret.gen.targets[j].rows = ret.gen.samples
            /\ ret.gen.targets[j].cols =
                [m \in 1..output_time_steps |->
                    input_time_steps + interval - 1 + (j - 1) * output_time_steps + (m - 1)]
        /\ \A j \in 1..(Len(ret.gen.targets) - 1) :
            ret.gen.targets[j + 1].cols[1] =
                ret.gen.targets[j].cols[output_time_steps] + 1

\* C12 witness: a sequence of at least two targets of two steps each, with inputs
\* of another length, was generated for some start offsets.
C12_Witness ==
    /\ kind = "Series"
    /\ GenerateRan
    /\ ret.gen.outcome = "ok"
    /\ sequence >= 2
    /\ output_time_steps >= 2
    /\ input_time_steps # output_time_steps
    /\ Len(ret.gen.samples) >= 1
    /\ Len(ret.gen.targets) = sequence

\* C11: a generator built with a falsy load, SmartDataGenerator or
\* SeriesDataGenerator, has emitted the performance warning by the time it has
\* generated a batch, and the batch is produced.
C11_LazyPathWarns ==
    (kind \in {"Smart", "Series"} /\ load = "none" /\ GenerateRan) =>
        /\ "slow" \in warnings
        /\ ret.gen.outcome = "ok"

\* C13: a SeriesDataGenerator completes _load_data at most once.  The flag is
\* force_load after construction; it is set exactly when one load has completed;
\* every generate that got past loading leaves it set; once set it stays set and
\* no call loads or touches the arrays again; and only a call that reaches
\* generate sets it.
C13_LoadedOnce ==
    /\ [](kind = "Series" =>
            /\ loads <= 1
            /\ is_loaded <=> loads = 1
            /\ ret.op = "init" => is_loaded = force_load
            /\ (GenerateRan /\ ret.gen.outcome # "NotImplementedError") => is_loaded)
    /\ [][kind = "Series" =>
            /\ is_loaded => (is_loaded' /\ loads' = loads /\ store' = store)
            /\ (~is_loaded /\ is_loaded') =>
                (ret'.op \in {"generate", "getitem"} /\ ret'.gen.outcome # "none"
                 /\ loads' = loads + 1)]_vars

\* C13 witness: a generator built without force_load has loaded in generate, in
\* 'minimal' mode, and a later request through __getitem__ found the data loaded.
C13_Witness ==
    /\ kind = "Series"
    /\ ~force_load
    /\ load = "minimal"
    /\ is_loaded
    /\ loads = 1
    /\ ret.op = "getitem"
    /\ ret.gen.outcome = "ok"

\* C14: the index order is the identity 0..n_sample-1 without shuffling and a
\* permutation of it with shuffling; only on_epoch_end changes it, so two
\* requests for the same batch index with no epoch end between them select
\* the same offsets.
C14_OrderChangesOnlyAtEpochEnd ==
    /\ [](/\ ~shuffle => indices = Arange(n_sample)
          /\ shuffle => /\ Len(indices) = Max(n_sample, 0)
                        /\ Range(indices) = 0..(n_sample - 1))
    /\ [][/\ ret'.op # "on_epoch_end" => indices' = indices
          /\ (ret.op = "getitem" /\ ret'.op = "getitem" /\ ret'.index = ret.index)
                => ret'.indexes = ret.indexes]_vars

\* C14 witness: a batch was requested from an epoch whose shuffled order is not
\* the identity.
C14_Witness ==
    /\ shuffle
    /\ indices # Arange(n_sample)
    /\ ret.op = "getitem"
    /\ ret.outcome = "ok"
    /\ Len(ret.indexes) >= 2
    /\ ret.indexes # Arange(Len(ret.indexes))

\* C15: no call changes the time-axis flag or the insolation flag: shape_2d,
\* output_shape_2d and generate assign them back, and convolution_shape,
\* dense_shape and n_features give after a call what they gave before it.
C15_FlagsRestored ==
    [][/\ keep_time_axis' = keep_time_axis
       /\ add_insolation' = add_insolation
       /\ convolution_shape' = convolution_shape
       /\ dense_shape' = dense_shape
       /\ n_features' = n_features]_vars

\* C15 witness: shape_2d was read on a recurrent generator with insolation, gave
\* another shape than convolution_shape, and the flags are as constructed.
C15_Witness ==
    /\ kind = "Series"
    /\ ret.op = "shapes"
    /\ keep_time_axis
    /\ add_insolation = 1
    /\ ret.shape.shape_2d # ret.shape.convolution_shape
    /\ ret.shape.convolution_shape = convolution_shape

\* a 'minimal' load on varlev-keyed data has completed
MinimalLoaded == kind = "Series" /\ load = "minimal" /\ varlev /\ is_loaded

InVars == Range(input_sel)
OutVars == Range(output_sel)

\* the fallback: the warning, the whole array in memory, both views selected by label
FellBack ==
    /\ "extra variables" \in warnings
    /\ store.views = "sel"
    /\ store.da = DataVars
    /\ store.memory = {"da"}
    /\ store.input_da = input_sel
    /\ store.output_da = output_sel

\* one array without duplicates, the shared variables first, both views leading
\* slices of it that hold the variables of their selection
Deduplicated ==
    /\ "extra variables" \notin warnings
    /\ store.views = "slice"
    /\ store.memory = {"da"}
    /\ Range(store.da) = InVars \cup OutVars
    /\ Len(store.da) = Cardinality(InVars \cup OutVars)
    /\ \A i \in 1..Len(store.da) :
        i <= Cardinality(InVars \cap OutVars) <=> store.da[i] \in InVars \cap OutVars
    /\ store.input_da = SubSeq(store.da, 1, Len(store.input_da))
    /\ store.output_da = SubSeq(store.da, 1, Len(store.output_da))
    /\ Range(store.input_da) = InVars
    /\ Len(store.input_da) = Cardinality(InVars)
    /\ Range(store.output_da) = OutVars
    /\ Len(store.output_da) = Cardinality(OutVars)

\* C16 as stated: the fallback is taken exactly when the selections share a
\* variable and neither holds all of the other's; otherwise the single
\* deduplicated array with leading slices.
C16_FallbackOnPartialOverlap ==
    MinimalLoaded =>
        IF /\ InVars \cap OutVars # {}
           /\ ~(InVars \subseteq OutVars)
           /\ ~(OutVars \subseteq InVars)
        THEN FellBack
        ELSE Deduplicated

\* C16 amended: the fallback is taken exactly when each selection has a variable
\* the other lacks, selections without a common variable included; otherwise
\* the single deduplicated array with leading slices.
C16_FallbackOnExtrasInBoth ==
    MinimalLoaded =>
        IF /\ InVars \ OutVars # {}
           /\ OutVars \ InVars # {}
        THEN FellBack
        ELSE Deduplicated

\* C16 witness: the inputs hold an extra variable, given before a shared one; the
\* single array was loaded with the shared variable moved to the front.
C16_Witness ==
    /\ MinimalLoaded
    /\ OutVars \subseteq InVars
    /\ InVars # OutVars
    /\ store.views = "slice"
    /\ store.input_da # input_sel
    /\ ret.gen.outcome = "ok"

====
